---- MODULE Spec2Model ----
(***************************************************************************)
(* Model of the Moessbauer filter control program (src/src/main.rs).       *)
(*                                                                         *)
(* The program is one process that runs exactly one subcommand.  Two of    *)
(* them operate the hardware filter for an extended time and are modelled  *)
(* here: `start` (batch measurement into a file) and `server` (websocket   *)
(* sessions, each with a reader task and a controller task that share the  *)
(* filter behind a tokio Mutex).                                           *)
(*                                                                         *)
(* The filter itself (crate moessbauer_filter) is not part of the          *)
(* repository.  Its behaviour is the device state machine that the         *)
(* specification documents; everything the documentation leaves to the     *)
(* driver is a nondeterministic choice.                                    *)
(***************************************************************************)
EXTENDS Integers, FiniteSets, Sequences, TLC

VARIABLES
    mode,       \* the subcommand the process runs: "server", "batch" (the
                \* start subcommand) or "stop"
    filter,     \* the MBFilter: [state, fifo, config]
    lock,       \* holder of the tokio Mutex around the filter, or NoTask
    pc,         \* per session: position of its HTTP request / upgrade
    submitted,  \* per session: the MBConfig of the request
    result,     \* per session: how the request's filters returned
    returned,   \* per session: the MBConfig handed on to ws_handler
    conn,       \* per session: the websocket connection, "open" or "closed"
    rpc,        \* per session: position of the reader task
    count,      \* per session: the reader's `count`, the result of its
                \* last read
    cleanups,   \* per session: number of calls of clean_up
    cpc,        \* per session: position of the controller task
    bpc,        \* batch: position in the start (or stop) subcommand
    requested,  \* batch: requested_pc, the target byte count
    fc,         \* batch: bytes collected so far
    lastOp      \* the most recent operation issued on the filter

vars == <<mode, filter, lock, pc, submitted, result, returned, conn, rpc,
          count, cleanups, cpc, bpc, requested, fc, lastOp>>

serverVars == <<lock, pc, submitted, result, returned, conn, rpc, count,
                cleanups, cpc>>

batchVars == <<bpc, requested, fc>>

----------------------------------------------------------------------------
(* Bounds of the model *)

\* number of websocket session requests the server receives
NSessions == 2

\* number of distinct valid configurations a request may carry
NConfigs == 2

\* frames the device FIFO holds before it reports FIFOFull
FifoCap == 2

\* frames one read buffer holds (the program's buffer holds 2048)
BufFrames == 1

\* bytes of a partial frame in a misaligned read
PartialBytes == 5

\* largest target file size of the batch command, in frames
MaxTargetFrames == 2

----------------------------------------------------------------------------
(* Program constants *)

\* bytes per frame: `count % 12`
FrameSize == 12

Sessions == 1..NSessions

Configs == 1..NConfigs

NoTask == <<0, "none">>

ReqTask(s) == <<s, "request">>

UpgradeTask(s) == <<s, "upgrade">>

ReaderTask(s) == <<s, "reader">>

ControlTask(s) == <<s, "controller">>

BatchTask == <<0, "batch">>

Min(a, b) == IF a < b THEN a ELSE b

----------------------------------------------------------------------------
(* The filter (MBFilter of the driver crate) *)

MBFState == {"Ready", "InvalidParameters", "Running", "FIFOFull", "Halted"}

\* states the device can be found in: no data is pending in Ready and
\* InvalidParameters, FIFOFull means the FIFO is at capacity, and a Running
\* device has room left
FilterStates ==
    {f \in [state : MBFState, fifo : 0..FifoCap, config : 0..NConfigs] :
        /\ f.state \in {"Ready", "InvalidParameters"} => f.fifo = 0
        /\ f.state = "FIFOFull" => f.fifo = FifoCap
        /\ f.state = "Running" => f.fifo < FifoCap}

\* MBFilter::new() in server mode: a configured, idle device
NewFilter == [state |-> "Ready", fifo |-> 0, config |-> 0]

\* filter.configure(c): the device stores the written value or, when the
\* write does not verify, some other value and flags InvalidParameters
Configure(f, c) ==
    {[f EXCEPT !.state = "Ready", !.config = c]} \cup
    {[f EXCEPT !.state = "InvalidParameters", !.config = d] :
        d \in (0..NConfigs) \ {c}}

\* filter.configuration()
Configuration(f) == f.config

\* filter.start(): Ready -> Running, otherwise the state is unchanged
Start(f) ==
    IF f.state = "Ready" THEN [f EXCEPT !.state = "Running"] ELSE f

\* filter.stop(): Running -> Halted, no-op when Halted or idle; what a
\* saturated device does is left to the driver
Stop(f) ==
    CASE f.state = "Running" -> {[f EXCEPT !.state = "Halted"]}
      [] f.state = "FIFOFull" -> {f, [f EXCEPT !.state = "Halted"]}
      [] OTHER -> {f}

\* the device after a read that took k frames out of the FIFO
AfterRead(f, k) ==
    LET g == [f EXCEPT !.fifo = f.fifo - k]
    IN  CASE f.state = "Halted" ->
               {IF g.fifo = 0 THEN [g EXCEPT !.state = "Ready"] ELSE g}
          [] f.state = "FIFOFull" ->
               {[g EXCEPT !.state = "Halted"], [g EXCEPT !.state = "Running"]}
          [] OTHER -> {g}

\* the Result<usize, _> of a read
Err == [ok |-> FALSE, n |-> 0]

Ok(n) == [ok |-> TRUE, n |-> n]

\* filter.read(&mut buffer): pairs <<result, device after the read>>.  The
\* result is Err or the number of bytes copied: whole frames, or (a driver
\* fault) whole frames and a partial one.
Read(f) ==
    LET k == Min(f.fifo, BufFrames)
    IN  {<<Err, f>>}
        \cup {<<Ok(k * FrameSize), g>> : g \in AfterRead(f, k)}
        \cup IF k = 0 THEN {}
             ELSE {<<Ok((k - 1) * FrameSize + PartialBytes), g>> :
                      g \in AfterRead(f, k)}

\* the record kept of an operation issued on the filter
Op(name, task, f) == [op |-> name, by |-> task, pre |-> f.state]

----------------------------------------------------------------------------
(* Initial state: main() up to the dispatch on the subcommand *)

Init ==
    /\ mode \in {"server", "batch", "stop"}
    /\ filter \in IF mode = "server" THEN {NewFilter} ELSE FilterStates
    /\ lock = NoTask
    /\ pc = [s \in Sessions |-> "idle"]
    /\ submitted = [s \in Sessions |-> 0]
    /\ result = [s \in Sessions |-> "none"]
    /\ returned = [s \in Sessions |-> 0]
    /\ conn = [s \in Sessions |-> "open"]
    /\ rpc = [s \in Sessions |-> "off"]
    /\ count = [s \in Sessions |-> Ok(0)]
    /\ cleanups = [s \in Sessions |-> 0]
    /\ cpc = [s \in Sessions |-> "off"]
    /\ bpc = CASE mode = "batch" -> "state"
               [] mode = "stop" -> "stop"
               [] OTHER -> "off"
    /\ requested \in IF mode = "batch"
                     THEN {n * FrameSize : n \in 0..MaxTargetFrames}
                     ELSE {0}
    /\ fc = 0
    /\ lastOp = [op |-> "none", by |-> NoTask, pre |-> "Ready"]

----------------------------------------------------------------------------
(* The hardware: a running filter produces frames on its own *)

Produce ==
    /\ filter.state = "Running"
    /\ filter' = [filter EXCEPT
                    !.fifo = @ + 1,
                    !.state = IF filter.fifo + 1 = FifoCap
                              THEN "FIFOFull" ELSE "Running"]
    /\ UNCHANGED <<mode, serverVars, batchVars, lastOp>>

----------------------------------------------------------------------------
(* server: the route websocket -> validate_config ->                       *)
(* check_and_configure_filter -> ws_handler                                *)

\* a request arrives with its query parameters (the sessions are numbered
\* in the order of arrival); validate_config accepts or rejects it
ValidateConfig(s) ==
    /\ mode = "server"
    /\ pc[s] = "idle"
    /\ \A t \in Sessions : t < s => pc[t] # "idle"
    /\ \E c \in Configs, valid \in BOOLEAN :
          /\ submitted' = [submitted EXCEPT ![s] = c]
          /\ IF valid
             THEN /\ pc' = [pc EXCEPT ![s] = "check"]
                  /\ result' = result
             ELSE /\ pc' = [pc EXCEPT ![s] = "rejected"]
                  /\ result' = [result EXCEPT ![s] = "InvalidConfig"]
    /\ UNCHANGED <<mode, filter, lock, returned, conn, rpc, count,
                   cleanups, cpc, batchVars, lastOp>>

\* TryLock as it would be with filter.lock().await: the request waits
TryLockWaits(s) ==
    /\ pc[s] = "check"
    /\ lock = NoTask
    /\ lock' = ReqTask(s)
    /\ pc' = [pc EXCEPT ![s] = "locked"]
    /\ UNCHANGED <<mode, filter, submitted, result, returned, conn, rpc,
                   count, cleanups, cpc, batchVars, lastOp>>

\* check_and_configure_filter: filter.try_lock() either yields the guard
\* or the request is rejected at once
TryLock(s) ==
    /\ pc[s] = "check"
    /\ IF lock = NoTask
       THEN /\ lock' = ReqTask(s)
            /\ pc' = [pc EXCEPT ![s] = "locked"]
            /\ result' = result
       ELSE /\ lock' = lock
            /\ pc' = [pc EXCEPT ![s] = "rejected"]
            /\ result' = [result EXCEPT ![s] = "Busy"]
    /\ UNCHANGED <<mode, filter, submitted, returned, conn, rpc, count,
                   cleanups, cpc, batchVars, lastOp>>

\* Configurable as it would be if only a Running device were refused
ConfigurableUnlessRunning(state) == state # "Running"

\* check_and_configure_filter: the arm `Ready | InvalidParameters` of the
\* match on the state
Configurable(state) == state \in {"Ready", "InvalidParameters"}

\* the MBHTTPError a rejected request carries; `result` names the place
\* that returned: validate_config ("InvalidConfig"), the read-back test
\* ("ConfigLoadError"), the other arm of the match on the state
\* ("WrongState"), or the failed try_lock ("Busy")
Message(r) ==
    CASE r = "InvalidConfig" -> "Invalid Config"
      [] r = "ConfigLoadError" -> "Filter config load error"
      [] r \in {"WrongState", "Busy"} -> "Filter already running"
      [] OTHER -> ""

\* ConfigAccepted as it would be without the comparison
ConfigAcceptedUnchecked(read_config, config) == TRUE

\* whether check_and_configure_filter accepts the read-back configuration
ConfigAccepted(read_config, config) == read_config = config

\* check_and_configure_filter with the guard: the match on the state, the
\* write of the configuration and its read-back; the guard is dropped on
\* return
CheckAndConfigure(s) ==
    /\ pc[s] = "locked"
    /\ lock = ReqTask(s)
    /\ lock' = NoTask
    /\ IF Configurable(filter.state)
       THEN \E g \in Configure(filter, submitted[s]) :
               /\ filter' = g
               /\ lastOp' = Op("configure", ReqTask(s), filter)
               /\ IF ConfigAccepted(Configuration(g), submitted[s])
                  THEN /\ result' = [result EXCEPT ![s] = "Ok"]
                       /\ returned' = [returned EXCEPT
                                         ![s] = Configuration(g)]
                       /\ pc' = [pc EXCEPT ![s] = "upgrade"]
                  ELSE /\ result' = [result EXCEPT
                                       ![s] = "ConfigLoadError"]
                       /\ returned' = returned
                       /\ pc' = [pc EXCEPT ![s] = "rejected"]
       ELSE /\ result' = [result EXCEPT ![s] = "WrongState"]
            /\ pc' = [pc EXCEPT ![s] = "rejected"]
            /\ UNCHANGED <<filter, returned, lastOp>>
    /\ UNCHANGED <<mode, submitted, conn, rpc, count, cleanups, cpc,
                   batchVars>>

\* ws_handler, on_upgrade: filter.lock().await
UpgradeLock(s) ==
    /\ pc[s] = "upgrade"
    /\ lock = NoTask
    /\ lock' = UpgradeTask(s)
    /\ pc' = [pc EXCEPT ![s] = "start"]
    /\ UNCHANGED <<mode, filter, submitted, result, returned, conn, rpc,
                   count, cleanups, cpc, batchVars, lastOp>>

\* ws_handler, on_upgrade: locked_filter.start(), the guard is dropped and
\* the reader and the controller are spawned
UpgradeStart(s) ==
    /\ pc[s] = "start"
    /\ lock = UpgradeTask(s)
    /\ filter' = Start(filter)
    /\ lastOp' = Op("start", UpgradeTask(s), filter)
    /\ lock' = NoTask
    /\ pc' = [pc EXCEPT ![s] = "streaming"]
    /\ rpc' = [rpc EXCEPT ![s] = "lock"]
    /\ cpc' = [cpc EXCEPT ![s] = "recv"]
    /\ UNCHANGED <<mode, submitted, result, returned, conn, count,
                   cleanups, batchVars>>

----------------------------------------------------------------------------
(* server: the reader task of a session *)

\* ReaderLock as it would be if the lock did not exclude other holders
ReaderLockNotExclusive(s) ==
    /\ rpc[s] = "lock"
    /\ lock' = ReaderTask(s)
    /\ rpc' = [rpc EXCEPT ![s] = "read"]
    /\ UNCHANGED <<mode, filter, pc, submitted, result, returned, conn,
                   count, cleanups, cpc, batchVars, lastOp>>

\* reader: reader_filter_clone.lock().await
ReaderLock(s) ==
    /\ rpc[s] = "lock"
    /\ lock = NoTask
    /\ lock' = ReaderTask(s)
    /\ rpc' = [rpc EXCEPT ![s] = "read"]
    /\ UNCHANGED <<mode, filter, pc, submitted, result, returned, conn,
                   count, cleanups, cpc, batchVars, lastOp>>

\* Forwardable as it would be without the test
ForwardableAlways(n) == TRUE

\* reader: `count % 12 == 0`, the test that lets a read go to the client
Forwardable(n) == n % FrameSize = 0

\* reader: where the match on `count` takes the task
AfterMatch(r) ==
    IF ~r.ok THEN "cu_lock"
    ELSE IF Forwardable(r.n) THEN "send" ELSE "cu_lock"

\* ReaderRead as it would be if the guard lived until the end of the loop
\* body, across the send
ReaderReadKeepsGuard(s) ==
    /\ rpc[s] = "read"
    /\ lock = ReaderTask(s)
    /\ \E o \in Read(filter) :
          /\ filter' = o[2]
          /\ count' = [count EXCEPT ![s] = o[1]]
          /\ rpc' = [rpc EXCEPT ![s] = AfterMatch(o[1])]
          /\ cleanups' = [cleanups EXCEPT
                            ![s] = IF AfterMatch(o[1]) = "cu_lock"
                                   THEN @ + 1 ELSE @]
    /\ lastOp' = Op("read", ReaderTask(s), filter)
    /\ lock' = lock
    /\ UNCHANGED <<mode, pc, submitted, result, returned, conn, cpc,
                   batchVars>>

\* reader: filter.read(&mut buffer[..]), the guard is dropped, and the
\* match on the result
ReaderRead(s) ==
    /\ rpc[s] = "read"
    /\ lock = ReaderTask(s)
    /\ \E o \in Read(filter) :
          /\ filter' = o[2]
          /\ count' = [count EXCEPT ![s] = o[1]]
          /\ rpc' = [rpc EXCEPT ![s] = AfterMatch(o[1])]
          /\ cleanups' = [cleanups EXCEPT
                            ![s] = IF AfterMatch(o[1]) = "cu_lock"
                                   THEN @ + 1 ELSE @]
    /\ lastOp' = Op("read", ReaderTask(s), filter)
    /\ lock' = NoTask
    /\ UNCHANGED <<mode, pc, submitted, result, returned, conn, cpc,
                   batchVars>>

\* AfterSend as it would be if a failed send broke out of the loop
\* without clean_up
AfterSendNoCleanUp(ok) == IF ok THEN "lock" ELSE "done"

\* AfterSend as it would be if a failed send were ignored
AfterSendIgnoresError(ok) == "lock"

\* reader: where the task goes after wstx.send(..).await
AfterSend(ok) == IF ok THEN "lock" ELSE "cu_lock"

\* reader: wstx.send(Message::binary(&buffer[..count])).await; it can
\* succeed only on an open connection, and a failed send means the
\* connection is gone
ReaderSend(s) ==
    /\ rpc[s] = "send"
    /\ \E ok \in BOOLEAN :
          /\ ok => conn[s] = "open"
          /\ conn' = [conn EXCEPT ![s] = IF ok THEN @ ELSE "closed"]
          /\ rpc' = [rpc EXCEPT ![s] = AfterSend(ok)]
          /\ cleanups' = [cleanups EXCEPT
                            ![s] = IF AfterSend(ok) = "cu_lock"
                                   THEN @ + 1 ELSE @]
    /\ UNCHANGED <<mode, filter, lock, pc, submitted, result, returned,
                   count, cpc, batchVars, lastOp>>

\* clean_up: filter.lock().await
CleanUpLock(s) ==
    /\ rpc[s] = "cu_lock"
    /\ lock = NoTask
    /\ lock' = ReaderTask(s)
    /\ rpc' = [rpc EXCEPT ![s] = "cu_match"]
    /\ UNCHANGED <<mode, filter, pc, submitted, result, returned, conn,
                   count, cleanups, cpc, batchVars, lastOp>>

\* CleanUpMatch as it would be if the Running arm went to its read without
\* the stop
CleanUpMatchNoStop(s) ==
    /\ rpc[s] = "cu_match"
    /\ lock = ReaderTask(s)
    /\ CASE filter.state \in {"InvalidParameters", "Ready"} ->
              /\ rpc' = [rpc EXCEPT ![s] = "done"]
              /\ lock' = NoTask
              /\ UNCHANGED <<filter, lastOp>>
         [] filter.state \in {"FIFOFull", "Running"} ->
              /\ rpc' = [rpc EXCEPT ![s] = "cu_read"]
              /\ UNCHANGED <<filter, lock, lastOp>>
         [] filter.state = "Halted" ->
              /\ \E g \in Stop(filter) : filter' = g
              /\ lastOp' = Op("stop", ReaderTask(s), filter)
              /\ rpc' = [rpc EXCEPT ![s] = "cu_read"]
              /\ lock' = lock
    /\ UNCHANGED <<mode, pc, submitted, result, returned, conn, count,
                   cleanups, cpc, batchVars>>

\* CleanUpMatch as it would be if the FIFOFull arm stopped the device as
\* the Running arm does
CleanUpMatchStopsFull(s) ==
    /\ rpc[s] = "cu_match"
    /\ lock = ReaderTask(s)
    /\ CASE filter.state \in {"InvalidParameters", "Ready"} ->
              /\ rpc' = [rpc EXCEPT ![s] = "done"]
              /\ lock' = NoTask
              /\ UNCHANGED <<filter, lastOp>>
         [] filter.state \in {"FIFOFull", "Running", "Halted"} ->
              /\ \E g \in Stop(filter) : filter' = g
              /\ lastOp' = Op("stop", ReaderTask(s), filter)
              /\ rpc' = [rpc EXCEPT ![s] = "cu_read"]
              /\ lock' = lock
    /\ UNCHANGED <<mode, pc, submitted, result, returned, conn, count,
                   cleanups, cpc, batchVars>>

\* clean_up: the match on locked_filter.state(), and the stop() of the
\* Running and Halted arms
CleanUpMatch(s) ==
    /\ rpc[s] = "cu_match"
    /\ lock = ReaderTask(s)
    /\ CASE filter.state \in {"InvalidParameters", "Ready"} ->
              /\ rpc' = [rpc EXCEPT ![s] = "done"]
              /\ lock' = NoTask
              /\ UNCHANGED <<filter, lastOp>>
         [] filter.state = "FIFOFull" ->
              /\ rpc' = [rpc EXCEPT ![s] = "cu_read"]
              /\ UNCHANGED <<filter, lock, lastOp>>
         [] filter.state \in {"Running", "Halted"} ->
              /\ \E g \in Stop(filter) : filter' = g
              /\ lastOp' = Op("stop", ReaderTask(s), filter)
              /\ rpc' = [rpc EXCEPT ![s] = "cu_read"]
              /\ lock' = lock
    /\ UNCHANGED <<mode, pc, submitted, result, returned, conn, count,
                   cleanups, cpc, batchVars>>

\* clean_up: locked_filter.read(&mut buffer).unwrap(); an Err panics the
\* task, and the guard is dropped either way
CleanUpRead(s) ==
    /\ rpc[s] = "cu_read"
    /\ lock = ReaderTask(s)
    /\ \E o \in Read(filter) :
          /\ filter' = o[2]
          /\ rpc' = [rpc EXCEPT
                       ![s] = IF o[1].ok THEN "done" ELSE "panicked"]
    /\ lastOp' = Op("read", ReaderTask(s), filter)
    /\ lock' = NoTask
    /\ UNCHANGED <<mode, pc, submitted, result, returned, conn, count,
                   cleanups, cpc, batchVars>>

----------------------------------------------------------------------------
(* server: the controller task of a session, and the client *)

\* the client goes away without a close message
ClientDisconnect(s) ==
    /\ pc[s] = "streaming"
    /\ conn[s] = "open"
    /\ conn' = [conn EXCEPT ![s] = "closed"]
    /\ UNCHANGED <<mode, filter, lock, pc, submitted, result, returned, rpc,
                   count, cleanups, cpc, batchVars, lastOp>>

\* what wsrx.next().await can yield: a message that is not a close, a
\* close message, a receive error, or the end of the stream
Received(s) ==
    IF conn[s] = "open" THEN {"msg", "close", "err"} ELSE {"err", "end"}

\* controller: where the task goes on what it received
AfterRecv(kind) ==
    CASE kind = "msg" -> "recv"
      [] kind \in {"close", "err"} -> "stop_lock"
      [] kind = "end" -> "done"

\* controller: `while let Some(result) = wsrx.next().await` and the match
CtrlRecv(s) ==
    /\ cpc[s] = "recv"
    /\ \E kind \in Received(s) :
          /\ cpc' = [cpc EXCEPT ![s] = AfterRecv(kind)]
          /\ conn' = [conn EXCEPT ![s] = IF kind = "msg" THEN @ ELSE "closed"]
    /\ UNCHANGED <<mode, filter, lock, pc, submitted, result, returned, rpc,
                   count, cleanups, batchVars, lastOp>>

\* controller: control_filter_clone.lock().await
CtrlLock(s) ==
    /\ cpc[s] = "stop_lock"
    /\ lock = NoTask
    /\ lock' = ControlTask(s)
    /\ cpc' = [cpc EXCEPT ![s] = "stop"]
    /\ UNCHANGED <<mode, filter, pc, submitted, result, returned, conn, rpc,
                   count, cleanups, batchVars, lastOp>>

\* CtrlStop as it would be if the guard were kept (leaked) when the task
\* ends
CtrlStopKeepsGuard(s) ==
    /\ cpc[s] = "stop"
    /\ lock = ControlTask(s)
    /\ \E g \in Stop(filter) : filter' = g
    /\ lastOp' = Op("stop", ControlTask(s), filter)
    /\ lock' = lock
    /\ cpc' = [cpc EXCEPT ![s] = "done"]
    /\ UNCHANGED <<mode, pc, submitted, result, returned, conn, rpc, count,
                   cleanups, batchVars>>

\* CtrlStop as it would be without the break: the task goes back to
\* wsrx.next()
CtrlStopNoBreak(s) ==
    /\ cpc[s] = "stop"
    /\ lock = ControlTask(s)
    /\ \E g \in Stop(filter) : filter' = g
    /\ lastOp' = Op("stop", ControlTask(s), filter)
    /\ lock' = NoTask
    /\ cpc' = [cpc EXCEPT ![s] = "recv"]
    /\ UNCHANGED <<mode, pc, submitted, result, returned, conn, rpc, count,
                   cleanups, batchVars>>

\* controller: locked_filter.stop(); break
CtrlStop(s) ==
    /\ cpc[s] = "stop"
    /\ lock = ControlTask(s)
    /\ \E g \in Stop(filter) : filter' = g
    /\ lastOp' = Op("stop", ControlTask(s), filter)
    /\ lock' = NoTask
    /\ cpc' = [cpc EXCEPT ![s] = "done"]
    /\ UNCHANGED <<mode, pc, submitted, result, returned, conn, rpc, count,
                   cleanups, batchVars>>

----------------------------------------------------------------------------
(* batch: the start subcommand *)

\* start: match filter.state(); Ready => filter.start(), anything else is
\* Err(MBError::WrongState)
BatchStart ==
    /\ bpc = "state"
    /\ IF filter.state = "Ready"
       THEN /\ filter' = Start(filter)
            /\ lastOp' = Op("start", BatchTask, filter)
            /\ bpc' = "loop"
       ELSE /\ bpc' = "WrongState"
            /\ UNCHANGED <<filter, lastOp>>
    /\ UNCHANGED <<mode, serverVars, requested, fc>>

\* start: one round of `while fc < requested_pc`: filter.read(..)? and the
\* write of the bytes to the output file
BatchRead ==
    /\ bpc = "loop"
    /\ fc < requested
    /\ \E o \in Read(filter), written \in BOOLEAN :
          /\ filter' = o[2]
          /\ IF ~o[1].ok
             THEN bpc' = "FilterError" /\ fc' = fc
             ELSE IF o[1].n > 0 /\ ~written
             THEN bpc' = "IOError" /\ fc' = fc
             ELSE bpc' = bpc /\ fc' = fc + o[1].n
    /\ lastOp' = Op("read", BatchTask, filter)
    /\ UNCHANGED <<mode, serverVars, requested>>

\* start: the loop is left and filter.stop() is called
BatchStop ==
    /\ bpc = "loop"
    /\ ~(fc < requested)
    /\ \E g \in Stop(filter) : filter' = g
    /\ lastOp' = Op("stop", BatchTask, filter)
    /\ bpc' = "exit"
    /\ UNCHANGED <<mode, serverVars, requested, fc>>

----------------------------------------------------------------------------
(* the stop subcommand *)

\* stop: unimplemented!("stop subcommand") panics; no filter is opened
StopSubcommand ==
    /\ bpc = "stop"
    /\ bpc' = "unimplemented"
    /\ UNCHANGED <<mode, filter, serverVars, requested, fc, lastOp>>

----------------------------------------------------------------------------

\* the server subcommand: the hardware, the requests and the tasks
ServerNext ==
    \/ Produce
    \/ \E s \in Sessions :
          \/ ValidateConfig(s)
          \/ TryLock(s)
          \/ CheckAndConfigure(s)
          \/ UpgradeLock(s)
          \/ UpgradeStart(s)
          \/ ReaderLock(s)
          \/ ReaderRead(s)
          \/ ReaderSend(s)
          \/ CleanUpLock(s)
          \/ CleanUpMatch(s)
          \/ CleanUpRead(s)
          \/ ClientDisconnect(s)
          \/ CtrlRecv(s)
          \/ CtrlLock(s)
          \/ CtrlStop(s)

\* the start subcommand
BatchNext ==
    \/ BatchStart
    \/ BatchRead
    \/ BatchStop

Next == ServerNext \/ BatchNext \/ StopSubcommand

Spec == Init /\ [][Next]_vars

----------------------------------------------------------------------------
(* The server under fair scheduling *)

\* the steps a task takes without waiting for anything but the scheduler
RequestSteps(s) == CheckAndConfigure(s) \/ UpgradeStart(s)

ReaderSteps(s) ==
    ReaderRead(s) \/ ReaderSend(s) \/ CleanUpMatch(s) \/ CleanUpRead(s)

CtrlSteps(s) == CtrlRecv(s) \/ CtrlStop(s)

\* the steps in which the reader task takes the lock
ReaderLocks(s) == ReaderLock(s) \/ CleanUpLock(s)

\* The scheduling of the server: tokio runs every task that can take a
\* step, and its Mutex hands the lock to the waiters in turn, so a task
\* that waits for the lock gets it when it is released again and again.
Fairness ==
    \A s \in Sessions :
        /\ WF_vars(RequestSteps(s))
        /\ WF_vars(ReaderSteps(s))
        /\ WF_vars(CtrlSteps(s))
        /\ SF_vars(UpgradeLock(s))
        /\ SF_vars(ReaderLocks(s))
        /\ SF_vars(CtrlLock(s))

\* the server after validate_config has rejected its first request
FairInit ==
    /\ mode = "server"
    /\ filter = NewFilter
    /\ lock = NoTask
    /\ pc = [s \in Sessions |-> IF s = 1 THEN "rejected" ELSE "idle"]
    /\ submitted = [s \in Sessions |-> IF s = 1 THEN 1 ELSE 0]
    /\ result = [s \in Sessions |-> IF s = 1 THEN "InvalidConfig" ELSE "none"]
    /\ returned = [s \in Sessions |-> 0]
    /\ conn = [s \in Sessions |-> "open"]
    /\ rpc = [s \in Sessions |-> "off"]
    /\ count = [s \in Sessions |-> Ok(0)]
    /\ cleanups = [s \in Sessions |-> 0]
    /\ cpc = [s \in Sessions |-> "off"]
    /\ bpc = "off"
    /\ requested = 0
    /\ fc = 0
    /\ lastOp = [op |-> "none", by |-> NoTask, pre |-> "Ready"]

FairSpec == FairInit /\ [][ServerNext]_vars /\ Fairness

----------------------------------------------------------------------------
(* Properties *)

\* the reader task has ended (it returned, or it panicked in clean_up)
ReaderEnded(s) == rpc[s] \in {"done", "panicked"}

\* both tasks of session s have ended
SessionEnded(s) == ReaderEnded(s) /\ cpc[s] = "done"

\* session s has started and at least one of its tasks is still alive
SessionActive(s) == pc[s] = "streaming" /\ ~SessionEnded(s)

\* the reader is inside clean_up
InCleanUp(s) == rpc[s] \in {"cu_lock", "cu_match", "cu_read"}

\* C1: once both tasks of a streaming session have ended (and no other
\* session is active), the device is not Running, Halted or FIFOFull.
C1_ReadyAfterSession ==
    \A s \in Sessions :
        (SessionEnded(s) /\ \A t \in Sessions \ {s} : ~SessionActive(t))
            => filter.state \notin {"Running", "Halted", "FIFOFull"}

\* C2: when session requests race, start() is only ever issued by
\* on_upgrade on a device that is Ready, so that a second request never
\* starts a device the first one has started.
C2_StartOnlyWhenReady ==
    [][\A s \in Sessions :
          (pc[s] = "start" /\ pc'[s] = "streaming")
              => filter.state = "Ready"]_vars

\* C3: clean_up is called at most once per session, exactly once by the
\* time both tasks of the session have ended, and a clean_up in progress
\* is that one call.
C3_CleanUpOnce ==
    \A s \in Sessions :
        /\ cleanups[s] <= 1
        /\ SessionEnded(s) => cleanups[s] = 1
        /\ ReaderEnded(s) => cleanups[s] = 1
        /\ InCleanUp(s) => cleanups[s] = 1

\* C3 witness: a session both of whose tasks have ended, the reader
\* through the drain read of its one clean_up.
C3_Witness ==
    \E s \in Sessions :
        /\ SessionEnded(s)
        /\ cleanups[s] = 1
        /\ lastOp.op = "read"
        /\ lastOp.by = ReaderTask(s)

\* C4: start() is issued, at either call site, only on a device whose
\* state is Ready.
C4_StartRequiresReady ==
    lastOp.op = "start" => lastOp.pre = "Ready"

\* C5: the reader is at its send only with a byte count that is a
\* multiple of the frame size, and after a read whose byte count is not a
\* multiple of the frame size it is in clean_up or has ended, with clean_up
\* called.
C5_OnlyWholeFramesSent ==
    \A s \in Sessions :
        /\ rpc[s] = "send" => (count[s].ok /\ count[s].n % FrameSize = 0)
        /\ (count[s].ok /\ count[s].n % FrameSize # 0)
              => ((InCleanUp(s) \/ ReaderEnded(s)) /\ cleanups[s] = 1)

\* C5 witness: a misaligned read has ended the reader through clean_up.
C5_Witness ==
    \E s \in Sessions :
        /\ count[s].ok
        /\ count[s].n % FrameSize # 0
        /\ rpc[s] = "done"

\* a step of check_and_configure_filter by s that holds the guard
ConfigureStep(s) == pc[s] = "locked" /\ pc'[s] # "locked"

\* C6: a configuration is written only to a device that is Ready or
\* InvalidParameters, and a request that finds the device Running, Halted
\* or FIFOFull is rejected and leaves the device as it was.
C6_ConfigureOnlyWhenIdle ==
    /\ [](lastOp.op = "configure"
            => lastOp.pre \in {"Ready", "InvalidParameters"})
    /\ [][\A s \in Sessions :
            (ConfigureStep(s)
             /\ filter.state \in {"Running", "Halted", "FIFOFull"})
                => /\ filter' = filter
                   /\ lastOp' = lastOp
                   /\ pc'[s] = "rejected"
                   /\ result'[s] = "WrongState"
                   /\ Message(result'[s]) = "Filter already running"]_vars

\* C6 witness: a request was rejected by the match on the state while the
\* device was Running.
C6_Witness ==
    \E s \in Sessions :
        /\ pc[s] = "rejected"
        /\ result[s] = "WrongState"
        /\ filter.state = "Running"

\* C7: the lock attempt of a configuration request can always be taken at
\* once, and when another task holds the lock it ends in the rejection
\* "Filter already running" with no operation on the device.
C7_ConfigureNeverWaits ==
    /\ [](\A s \in Sessions : pc[s] = "check" => ENABLED TryLock(s))
    /\ [][\A s \in Sessions :
            (pc[s] = "check" /\ pc'[s] # "check" /\ lock # NoTask)
                => /\ pc'[s] = "rejected"
                   /\ result'[s] = "Busy"
                   /\ Message(result'[s]) = "Filter already running"
                   /\ filter' = filter
                   /\ lastOp' = lastOp
                   /\ lock' = lock]_vars

\* C7 witness: a request was rejected as busy while a reader of another
\* session holds the lock for its read.
C7_Witness ==
    \E s \in Sessions, t \in Sessions :
        /\ s # t
        /\ pc[s] = "rejected"
        /\ result[s] = "Busy"
        /\ lock = ReaderTask(t)
        /\ rpc[t] = "read"

\* C8: a request passes check_and_configure_filter only with the device
\* holding the submitted configuration, which is the value handed on; when
\* the read-back differs the request is rejected with "Filter config load
\* error", the device is InvalidParameters, and the session never starts.
C8_ConfigVerified ==
    /\ [](\A s \in Sessions :
            /\ result[s] = "Ok" => returned[s] = submitted[s]
            /\ result[s] = "ConfigLoadError"
                  => (pc[s] = "rejected" /\ rpc[s] = "off" /\ cpc[s] = "off"))
    /\ [][\A s \in Sessions :
            ConfigureStep(s) =>
                /\ result'[s] = "Ok"
                      => (/\ Configuration(filter') = submitted[s]
                          /\ returned'[s] = submitted[s]
                          /\ pc'[s] = "upgrade")
                /\ (Configurable(filter.state)
                    /\ Configuration(filter') # submitted[s])
                      => (/\ result'[s] = "ConfigLoadError"
                          /\ Message(result'[s]) = "Filter config load error"
                          /\ filter'.state = "InvalidParameters"
                          /\ pc'[s] = "rejected")]_vars

\* C8 witness: a request was rejected because the read-back differed, and
\* the device is InvalidParameters.
C8_Witness ==
    \E s \in Sessions :
        /\ result[s] = "ConfigLoadError"
        /\ filter.state = "InvalidParameters"
        /\ Configuration(filter) # submitted[s]

\* session s runs and its client has gone (it disconnected or sent close)
Cancelled(s) == pc[s] = "streaming" /\ conn[s] = "closed"

\* C9: a running session whose client has disconnected or sent a close
\* message eventually has called clean_up and both its tasks have ended.
C9_CancelledSessionEnds ==
    \A s \in Sessions :
        Cancelled(s) ~> (SessionEnded(s) /\ cleanups[s] = 1)

\* C9 witness: a session whose client has gone, with both tasks ended and
\* clean_up called.
C9_Witness ==
    \E s \in Sessions :
        /\ Cancelled(s)
        /\ SessionEnded(s)
        /\ cleanups[s] = 1

\* the start subcommand has left main after it had started the device
BatchExitedAfterStart == bpc \in {"exit", "FilterError", "IOError"}

\* C10: when the start subcommand exits after having started the device,
\* the device has been stopped and the last operation on it was a drain
\* read, so it is left neither Running nor Halted.
C10_BatchStopsAndDrains ==
    BatchExitedAfterStart
        => /\ lastOp.op = "read"
           /\ lastOp.pre \notin {"Running", "FIFOFull"}
           /\ filter.state \notin {"Running", "Halted"}

\* C11: once the stop subcommand has run, the process has not aborted and
\* the device is not left Running.
C11_StopSubcommandStops ==
    (mode = "stop" /\ bpc # "stop")
        => (bpc # "unimplemented" /\ filter.state # "Running")

\* C12: while the reader task is at its send to the client it does not
\* hold the lock.
C12_SendOutsideLock ==
    \A s \in Sessions : rpc[s] = "send" => lock # ReaderTask(s)

\* C12 witness: while a reader is at its send to a client, the request of
\* another session has taken the lock with try_lock.
C12_Witness ==
    \E s \in Sessions, t \in Sessions :
        /\ rpc[s] = "send"
        /\ count[s].n > 0
        /\ lock = ReqTask(t)

\* the tasks that are at a call of the filter
AtFilter ==
    {ReqTask(s) : s \in {x \in Sessions : pc[x] = "locked"}}
    \cup {UpgradeTask(s) : s \in {x \in Sessions : pc[x] = "start"}}
    \cup {ReaderTask(s) :
            s \in {x \in Sessions : rpc[x] \in {"read", "cu_match", "cu_read"}}}
    \cup {ControlTask(s) : s \in {x \in Sessions : cpc[x] = "stop"}}

\* a step that operates the filter: it is recorded as the last operation,
\* or changes the device other than by the device filling its FIFO
FilterOpStep ==
    \/ lastOp' # lastOp
    \/ (filter' # filter /\ ~(filter'.fifo = filter.fifo + 1))

\* C13: in server mode a task that is at a call of the filter is the one
\* holder of the lock, so at most one task is ever at such a call, and
\* every operation on the filter is issued by the holder of the lock.
C13_FilterOpsUnderLock ==
    /\ [](mode = "server" =>
            /\ AtFilter \subseteq {lock}
            /\ Cardinality(AtFilter) <= 1
            /\ lock # NoTask => lock \in AtFilter)
    /\ [][(mode = "server" /\ FilterOpStep)
            => (lock # NoTask /\ lock \in AtFilter
                /\ (lastOp' # lastOp => lastOp'.by = lock))]_vars

\* C13 witness: the controller holds the lock for its stop while the
\* reader of the session waits for the lock.
C13_Witness ==
    \E s \in Sessions :
        /\ lock = ControlTask(s)
        /\ cpc[s] = "stop"
        /\ rpc[s] = "lock"

\* the step of session s in which clean_up matches on the state of the filter
CleanUpMatchStep(s) == rpc[s] = "cu_match" /\ rpc'[s] # "cu_match"

\* the step of session s in which clean_up reads
CleanUpReadStep(s) == rpc[s] = "cu_read" /\ rpc'[s] # "cu_read"

\* C14: clean_up issues the operations of the state it observes: none in
\* Ready or InvalidParameters, one read and no stop in FIFOFull, a stop and
\* then one read in Running; after its read the task issues nothing more.
C14_CleanUpOps ==
    [][\A s \in Sessions :
         /\ (CleanUpMatchStep(s)
               /\ filter.state \in {"Ready", "InvalidParameters"})
              => (rpc'[s] = "done" /\ filter' = filter /\ lastOp' = lastOp)
         /\ (CleanUpMatchStep(s) /\ filter.state = "FIFOFull")
              => (rpc'[s] = "cu_read" /\ filter' = filter
                  /\ lastOp' = lastOp)
         /\ (CleanUpMatchStep(s) /\ filter.state = "Running")
              => (rpc'[s] = "cu_read"
                  /\ lastOp' = Op("stop", ReaderTask(s), filter))
         /\ CleanUpReadStep(s)
              => (rpc'[s] \in {"done", "panicked"}
                  /\ lastOp' = Op("read", ReaderTask(s), filter))
         /\ (rpc[s] = "cu_read" /\ ~CleanUpReadStep(s))
              => (filter' = filter /\ lastOp' = lastOp)
         /\ rpc[s] \in {"done", "panicked"} => rpc'[s] = rpc[s]]_vars

\* C14 witness: clean_up has matched on FIFOFull and is at its read, and
\* the stop before it, if any, was not its own.
C14_Witness ==
    \E s \in Sessions :
        /\ rpc[s] = "cu_read"
        /\ filter.state = "FIFOFull"
        /\ ~(lastOp.op = "stop" /\ lastOp.by = ReaderTask(s))

\* C15: when clean_up observes Halted it issues no stop: the step that
\* matches on the state leaves the device alone, and the read follows.
C15_HaltedCleanUpOnlyReads ==
    [][\A s \in Sessions :
         (CleanUpMatchStep(s) /\ filter.state = "Halted")
            => (rpc'[s] = "cu_read" /\ filter' = filter
                /\ lastOp' = lastOp)]_vars

\* C16: a read that returned 0 bytes is never forwarded: the reader is not
\* at its send with a count of 0.
C16_ZeroReadNotForwarded ==
    \A s \in Sessions :
        rpc[s] = "send" => ~(count[s].ok /\ count[s].n = 0)

\* the step in which on_upgrade starts the filter for session s
UpgradeStartStep(s) == pc[s] = "start" /\ pc'[s] # "start"

\* the step in which the reader of session s reads in its loop
ReaderReadStep(s) == rpc[s] = "read" /\ rpc'[s] # "read"

\* clean_up of session s has issued the stop of its Running or Halted arm
\* and nothing has operated the filter since
StoppedByCleanUp(s) == lastOp.op = "stop" /\ lastOp.by = ReaderTask(s)

\* C17 as stated: whenever clean_up of a session reads, a stop has been
\* issued before, by that clean_up or by a controller that has ended.
C17_StopBeforeEveryDrain ==
    [][\A s \in Sessions :
         CleanUpReadStep(s)
            => (StoppedByCleanUp(s) \/ \E t \in Sessions : cpc[t] = "done")
      ]_vars

\* C17 amended: the configure of a session precedes its start, its start
\* precedes every read of its reader, and clean_up has stopped the filter
\* before its drain read unless it observed FIFOFull, where it reads
\* without a stop.
C17_SessionOrder ==
    /\ [](\A s \in Sessions :
            /\ pc[s] \in {"upgrade", "start", "streaming"}
                 => result[s] = "Ok"
            /\ rpc[s] # "off" => pc[s] = "streaming"
            /\ rpc[s] = "cu_read"
                 => (StoppedByCleanUp(s) \/ filter.state = "FIFOFull"))
    /\ [][\A s \in Sessions :
            /\ (result[s] # "Ok" /\ result'[s] = "Ok")
                 => (ConfigureStep(s)
                     /\ lastOp' = Op("configure", ReqTask(s), filter))
            /\ UpgradeStartStep(s)
                 => (result[s] = "Ok" /\ pc'[s] = "streaming"
                     /\ lastOp' = Op("start", UpgradeTask(s), filter))
            /\ (pc[s] # "streaming" /\ pc'[s] = "streaming")
                 => UpgradeStartStep(s)
            /\ ReaderReadStep(s) => pc[s] = "streaming"
            /\ CleanUpReadStep(s)
                 => (StoppedByCleanUp(s) \/ filter.state = "FIFOFull")
       ]_vars

\* C17 witness: a configured and started session whose clean_up found the
\* device Running, has stopped it and is at its drain read.
C17_Witness ==
    \E s \in Sessions :
        /\ result[s] = "Ok"
        /\ pc[s] = "streaming"
        /\ rpc[s] = "cu_read"
        /\ lastOp = Op("stop", ReaderTask(s), [state |-> "Running"])

\* the step in which the controller of session s calls stop()
CtrlStopStep(s) == cpc[s] = "stop" /\ cpc'[s] # "stop"

\* the step in which the controller of session s ends
CtrlEndStep(s) == cpc[s] # "done" /\ cpc'[s] = "done"

\* C18: the controller of a session never calls stop() after the reader of
\* the session has run clean_up and ended.
C18_NoStopAfterCleanUp ==
    [][\A s \in Sessions :
         CtrlStopStep(s) => ~(cleanups[s] = 1 /\ rpc[s] = "done")]_vars

\* C19 as stated: while the reader of the session is still in its loop on
\* a Running device, the controller never ends other than by its stop
\* under the lock.
C19_EndsOnlyByStop ==
    [][\A s \in Sessions :
         (CtrlEndStep(s) /\ rpc[s] \in {"lock", "read", "send"}
          /\ filter.state = "Running")
            => (cpc[s] = "stop" /\ lock = ControlTask(s)
                /\ lastOp' = Op("stop", ControlTask(s), filter))]_vars

\* C19 amended: the controller calls stop() holding the lock and ends in
\* that step; it has ended for good, so it stops at most once; while it
\* waits for messages or for the lock it does not operate the filter; and
\* it ends without the stop only from wsrx.next() after the connection has
\* closed (the end of the message stream).
C19_ControllerStops ==
    [][\A s \in Sessions :
         /\ CtrlStopStep(s)
              => (lock = ControlTask(s) /\ lock' = NoTask
                  /\ cpc'[s] = "done"
                  /\ lastOp' = Op("stop", ControlTask(s), filter))
         /\ (lastOp' # lastOp /\ lastOp'.by = ControlTask(s))
              => (CtrlStopStep(s) /\ lastOp'.op = "stop")
         /\ cpc[s] = "done" => cpc'[s] = "done"
         /\ (cpc[s] = "recv" /\ cpc'[s] # "recv")
              => (conn'[s] = "closed" /\ filter' = filter
                  /\ lastOp' = lastOp
                  /\ cpc'[s] \in {"stop_lock", "done"})
         /\ (cpc[s] = "stop_lock" /\ cpc'[s] # "stop_lock")
              => (cpc'[s] = "stop" /\ lock = NoTask
                  /\ lock' = ControlTask(s) /\ filter' = filter)
         /\ CtrlEndStep(s)
              => (CtrlStopStep(s)
                  \/ (cpc[s] = "recv" /\ conn[s] = "closed"))]_vars

\* C19 witness: the controller of a session has stopped a Running device
\* under the lock and ended, while the reader of the session is alive.
C19_Witness ==
    \E s \in Sessions :
        /\ cpc[s] = "done"
        /\ conn[s] = "closed"
        /\ lastOp = Op("stop", ControlTask(s), [state |-> "Running"])
        /\ lock = NoTask
        /\ rpc[s] \in {"lock", "send"}

\* the tasks that are waiting in filter.lock().await
Waiting ==
    {UpgradeTask(s) : s \in {x \in Sessions : pc[x] = "upgrade"}}
    \cup {ReaderTask(s) :
            s \in {x \in Sessions : rpc[x] \in {"lock", "cu_lock"}}}
    \cup {ControlTask(s) : s \in {x \in Sessions : cpc[x] = "stop_lock"}}

====
